---- MODULE Spec2Model ----
(***************************************************************************)
(* Model of databricks-mcp-app/client/src/App.tsx: the root component that *)
(* nests UserProvider > ProjectsProvider > div > (Routes, Toaster) and     *)
(* declares three routes.                                                  *)
(*                                                                         *)
(* A Location (pathname) always starts with "/".  It is represented by the *)
(* sequence of its segments, pathname = "/" \o join(segs, "/"):            *)
(*    "/"              <<"">>                                              *)
(*    "//"             <<"", "">>                                          *)
(*    "/projects"      <<"projects">>                                      *)
(*    "/projects/"     <<"projects", "">>                                  *)
(*    "/projects/42"   <<"projects", "42">>                                *)
(*    "/projects/42/"  <<"projects", "42", "">>                            *)
(*                                                                         *)
(* <Routes>, <Route> and <Navigate> are react-router-dom v6 elements.  A   *)
(* route path is matched the way react-router compiles it: letters are     *)
(* compared ignoring case, a ":name" segment captures one non-empty        *)
(* segment, trailing slashes of the Location are ignored, and "*" matches  *)
(* every Location.  Branches are tried in the order of their score, not of *)
(* their declaration, and captured params are percent-decoded.             *)
(***************************************************************************)
EXTENDS Integers, Sequences, FiniteSets, TLC

VARIABLES
    pc,            \* number of components of RenderOrder mounted so far
    history,       \* the history stack: a sequence of Locations
    idx,           \* index of the current entry in history
    match,         \* what <Routes> selected on its last render
    mounted,       \* the page views currently mounted
    pending,       \* <Navigate> is rendered and its effect has not run yet
    userCtx,       \* User Context Value ("absent" before UserProvider renders)
    projCtx,       \* Project Collection Context Value, likewise
    userMounts,    \* UserProvider instances created so far
    projMounts,    \* ProjectsProvider instances created so far
    toasterMounts, \* Toaster instances created so far
    toasterPos,    \* placement of the mounted Toaster ("none" before mount)
    lastOp         \* the last operation taken

vars == <<pc, history, idx, match, mounted, pending, userCtx, projCtx,
          userMounts, projMounts, toasterMounts, toasterPos, lastOp>>

---------------------------------------------------------------------------
(* Bounds *)

MaxHist == 3

---------------------------------------------------------------------------
(* Locations *)

Root == <<"">>

Paths ==
    { <<"">>,                       \* /
      <<"", "">>,                   \* //
      <<"projects">>,               \* /projects
      <<"projects", "">>,           \* /projects/
      <<"projects", "42">>,         \* /projects/42
      <<"projects", "42", "">>,     \* /projects/42/
      <<"Projects", "42">>,         \* /Projects/42
      <<"projects", "a%20b">>,      \* /projects/a%20b
      <<"projects", "a", "b">>,     \* /projects/a/b
      <<"foo">>,                    \* /foo
      <<"bogus">> }                 \* /bogus

\* String.prototype.toLowerCase on the segments of Paths (the "i" flag of the
\* compiled route pattern).
Lower(s) == IF s = "Projects" THEN "projects" ELSE s

\* decodeURIComponent on the segments of Paths.
Decode(s) == IF s = "a%20b" THEN "a b" ELSE s

---------------------------------------------------------------------------
(* The route table, App.tsx lines 14-16 *)

Static(t) == [param |-> FALSE, text |-> t]

Param(n) == [param |-> TRUE, text |-> n]

\* empties: the empty strings path.split("/") yields; segs: the other
\* segments before a trailing "*"; splat: the path ends with "*".
\* fault: the wildcard route is missing
RouteTableNoWildcard ==
    << [path |-> "/", empties |-> 2, segs |-> <<>>, splat |-> FALSE,
        element |-> "HomePage"],
       [path |-> "/projects/:projectId", empties |-> 1,
        segs |-> <<Static("projects"), Param("projectId")>>, splat |-> FALSE,
        element |-> "ProjectPage"] >>

\* fault: the Home route is the prefix pattern "/*"
RouteTableHomePrefix ==
    << [path |-> "/*", empties |-> 1, segs |-> <<>>, splat |-> TRUE,
        element |-> "HomePage"],
       [path |-> "/projects/:projectId", empties |-> 1,
        segs |-> <<Static("projects"), Param("projectId")>>, splat |-> FALSE,
        element |-> "ProjectPage"],
       [path |-> "*", empties |-> 0, segs |-> <<>>, splat |-> TRUE,
        element |-> "Navigate"] >>

\* the routes as declared
RouteTable ==
    << [path |-> "/", empties |-> 2, segs |-> <<>>, splat |-> FALSE,
        element |-> "HomePage"],
       [path |-> "/projects/:projectId", empties |-> 1,
        segs |-> <<Static("projects"), Param("projectId")>>, splat |-> FALSE,
        element |-> "ProjectPage"],
       [path |-> "*", empties |-> 0, segs |-> <<>>, splat |-> TRUE,
        element |-> "Navigate"] >>

PageViews == {"HomePage", "ProjectPage"}

\* fault: the redirect targets a path only the wildcard matches
RedirectTargetBogus == <<"bogus">>

\* <Navigate to="/" replace />
RedirectTarget == Root

\* fault: the replace prop is missing, so the redirect pushes
NavigateReplacePush == FALSE

NavigateReplace == TRUE

\* <Toaster position="bottom-right" />
ToasterPosition == "bottom-right"

---------------------------------------------------------------------------
(* Route matching *)

\* one pattern segment against one Location segment: ":name" is [^\/]+ ,
\* a static segment is compared ignoring case
SegMatch(s, x) == IF s.param THEN x # "" ELSE Lower(x) = Lower(s.text)

\* matchPath({path, end: true}, pathname): the pattern's segments, then
\* anything for a splat, else nothing but trailing slashes
MatchPath(r, p) ==
    LET n == Len(r.segs)
    IN  /\ Len(p) >= n
        /\ \A i \in 1..n : SegMatch(r.segs[i], p[i])
        /\ \/ r.splat
           \/ /\ n = 0
              /\ \A i \in DOMAIN p : p[i] = ""
           \/ /\ n > 0
              /\ \A i \in (n+1)..Len(p) : p[i] = ""

\* fault: the param is bound to the first segment
ParamsStaticCapture(r, p) ==
    LET P == {i \in DOMAIN r.segs : r.segs[i].param}
    IN  [k \in {r.segs[i].text : i \in P} |-> p[1]]

\* the params matchPath captures, each percent-decoded
Params(r, p) ==
    LET P == {i \in DOMAIN r.segs : r.segs[i].param}
    IN  [k \in {r.segs[i].text : i \in P} |->
            Decode(p[CHOOSE i \in P : r.segs[i].text = k])]

RECURSIVE SegScore(_, _)
SegScore(segs, i) ==
    IF i > Len(segs) THEN 0
    ELSE (IF segs[i].param THEN 3 ELSE 10) + SegScore(segs, i + 1)

\* fault: splat routes rank first
ScoreSplatFirst(r) ==
    IF r.splat THEN 100 ELSE 0

\* computeScore(path, index) of a route that is not an index route
Score(r) ==
    LET nsplit == r.empties + Len(r.segs) + (IF r.splat THEN 1 ELSE 0)
    IN  nsplit + (IF r.splat THEN -2 ELSE 0) + r.empties + SegScore(r.segs, 1)

NoMatch == [route |-> 0, params |-> [k \in {} |-> ""]]

\* matchRoutes(routes, location): the matching branch of the highest score,
\* the earlier sibling on equal scores; null when no branch matches
MatchRoutes(p) ==
    LET M == {i \in DOMAIN RouteTable : MatchPath(RouteTable[i], p)}
    IN  IF M = {} THEN NoMatch
        ELSE LET b == CHOOSE i \in M : \A j \in M :
                          \/ Score(RouteTable[j]) < Score(RouteTable[i])
                          \/ /\ Score(RouteTable[j]) = Score(RouteTable[i])
                             /\ i <= j
             IN  [route |-> b, params |-> Params(RouteTable[b], p)]

ElementOf(m) == IF m.route = 0 THEN "null" ELSE RouteTable[m.route].element

\* fault: the previous page view is not unmounted
RoutesOutputKeepOld(old, m) ==
    old \cup ({ElementOf(m)} \cap PageViews)

\* the page views mounted once <Routes> has rendered the element of m: the
\* previous element is unmounted
RoutesOutput(old, m) == {ElementOf(m)} \cap PageViews

---------------------------------------------------------------------------
(* The component tree, App.tsx lines 10-21 *)

\* fault: ProjectsProvider wraps UserProvider
RenderOrderProjectsFirst == <<"ProjectsProvider", "UserProvider", "Routes", "Toaster">>

\* depth-first order in which React renders the elements App returns
RenderOrder == <<"UserProvider", "ProjectsProvider", "Routes", "Toaster">>

\* fault: the Toaster is rendered by the route elements
RoutedSubtreeWithToaster == {"HomePage", "ProjectPage", "Navigate", "Toaster"}

\* the elements below <Routes>: those a route change mounts and unmounts
RoutedSubtree == {"HomePage", "ProjectPage", "Navigate"}

Remount(c, n) == IF c \in RoutedSubtree THEN n + 1 ELSE n

Ready == pc = Len(RenderOrder)

NextIs(c) == pc < Len(RenderOrder) /\ RenderOrder[pc + 1] = c

Rendered(c) == \E i \in 1..pc : RenderOrder[i] = c

Cur == history[idx]

Absent == "absent"

\* the values the providers supply: opaque to App
UserValues == {"user0", "user1"}

ProjectsValues == {"projects0", "projects1"}

---------------------------------------------------------------------------

Init ==
    /\ pc = 0
    /\ history \in {<<p>> : p \in Paths}
    /\ idx = 1
    /\ match = NoMatch
    /\ mounted = {}
    /\ pending = FALSE
    /\ userCtx = Absent
    /\ projCtx = Absent
    /\ userMounts = 0
    /\ projMounts = 0
    /\ toasterMounts = 0
    /\ toasterPos = "none"
    /\ lastOp = "init"

\* <Routes> renders for Location p
RenderRoutes(p) ==
    LET m == MatchRoutes(p)
    IN  /\ match' = m
        /\ mounted' = RoutesOutput(mounted, m)
        /\ pending' = (ElementOf(m) = "Navigate")

\* a change of Location re-renders <Routes>; the providers and the Toaster
\* are re-created only if they are below <Routes>
RouteTransition(p) ==
    /\ RenderRoutes(p)
    /\ userMounts' = Remount("UserProvider", userMounts)
    /\ projMounts' = Remount("ProjectsProvider", projMounts)
    /\ toasterMounts' = Remount("Toaster", toasterMounts)
    /\ UNCHANGED <<pc, userCtx, projCtx, toasterPos>>

MountUserProvider ==
    /\ NextIs("UserProvider")
    /\ pc' = pc + 1
    /\ userCtx' \in UserValues
    /\ userMounts' = userMounts + 1
    /\ lastOp' = "mount"
    /\ UNCHANGED <<history, idx, match, mounted, pending, projCtx, projMounts,
                   toasterMounts, toasterPos>>

MountProjectsProvider ==
    /\ NextIs("ProjectsProvider")
    /\ pc' = pc + 1
    /\ projCtx' \in ProjectsValues
    /\ projMounts' = projMounts + 1
    /\ lastOp' = "mount"
    /\ UNCHANGED <<history, idx, match, mounted, pending, userCtx, userMounts,
                   toasterMounts, toasterPos>>

MountRoutes ==
    /\ NextIs("Routes")
    /\ pc' = pc + 1
    /\ RenderRoutes(Cur)
    /\ lastOp' = "mount"
    /\ UNCHANGED <<history, idx, userCtx, projCtx, userMounts, projMounts,
                   toasterMounts, toasterPos>>

MountToaster ==
    /\ NextIs("Toaster")
    /\ pc' = pc + 1
    /\ toasterMounts' = toasterMounts + 1
    /\ toasterPos' = ToasterPosition
    /\ lastOp' = "mount"
    /\ UNCHANGED <<history, idx, match, mounted, pending, userCtx, projCtx,
                   userMounts, projMounts>>

\* navigate(p): push a history entry, dropping the forward entries
NavigateTo(p) ==
    /\ Ready /\ ~pending
    /\ idx < MaxHist
    /\ history' = Append(SubSeq(history, 1, idx), p)
    /\ idx' = idx + 1
    /\ RouteTransition(p)
    /\ lastOp' = "navigate"

Back ==
    /\ Ready /\ ~pending
    /\ idx > 1
    /\ idx' = idx - 1
    /\ history' = history
    /\ RouteTransition(history[idx - 1])
    /\ lastOp' = "back"

Forward ==
    /\ Ready /\ ~pending
    /\ idx < Len(history)
    /\ idx' = idx + 1
    /\ history' = history
    /\ RouteTransition(history[idx + 1])
    /\ lastOp' = "forward"

\* the effect of <Navigate to="/" replace />, run after the commit
RedirectEffect ==
    /\ Ready /\ pending
    /\ IF NavigateReplace
       THEN /\ history' = [history EXCEPT ![idx] = RedirectTarget]
            /\ idx' = idx
       ELSE /\ history' = Append(SubSeq(history, 1, idx), RedirectTarget)
            /\ idx' = idx + 1
    /\ RouteTransition(RedirectTarget)
    /\ lastOp' = "redirect"

\* a provider replaces its context value; the providers stay mounted
UpdateUser ==
    /\ Ready
    /\ userCtx # Absent
    /\ userCtx' \in UserValues \ {userCtx}
    /\ lastOp' = "update"
    /\ UNCHANGED <<pc, history, idx, match, mounted, pending, projCtx,
                   userMounts, projMounts, toasterMounts, toasterPos>>

UpdateProjects ==
    /\ Ready
    /\ projCtx # Absent
    /\ projCtx' \in ProjectsValues \ {projCtx}
    /\ lastOp' = "update"
    /\ UNCHANGED <<pc, history, idx, match, mounted, pending, userCtx,
                   userMounts, projMounts, toasterMounts, toasterPos>>

Next ==
    \/ MountUserProvider
    \/ MountProjectsProvider
    \/ MountRoutes
    \/ MountToaster
    \/ \E p \in Paths : NavigateTo(p)
    \/ Back
    \/ Forward
    \/ RedirectEffect
    \/ UpdateUser
    \/ UpdateProjects

Spec == Init /\ [][Next]_vars

\* React finishes a render it has started and runs the effects of a commit
FairSpec ==
    /\ Spec
    /\ WF_vars(MountUserProvider)
    /\ WF_vars(MountProjectsProvider)
    /\ WF_vars(MountRoutes)
    /\ WF_vars(MountToaster)
    /\ WF_vars(RedirectEffect)

---------------------------------------------------------------------------
(* Properties *)

RoutesRendered == Rendered("Routes")

Settled == Ready /\ ~pending

RouteOps == {"navigate", "back", "forward", "redirect"}

\* the Location is exactly "/"
ExactHome(p) == p = Root

\* the Location is exactly "/projects/X", X one non-empty segment
ExactProject(p) == Len(p) = 2 /\ p[1] = "projects" /\ p[2] # ""

\* the Location is "/" followed by nothing but slashes
HomeLocation(p) == \A i \in DOMAIN p : p[i] = ""

\* the Location is "/projects/X" up to the case of its letters and to
\* trailing slashes
ProjectLocation(p) ==
    /\ Len(p) >= 2
    /\ Lower(p[1]) = "projects"
    /\ p[2] # ""
    /\ \A i \in 3..Len(p) : p[i] = ""

NoParams == [k \in {} |-> ""]

\* the redirect replaced the current history entry by "/"
ReplacedByRoot ==
    /\ idx' = idx
    /\ history' = [history EXCEPT ![idx] = Root]

\* C1 as stated: every Location that is neither exactly "/" nor exactly
\* "/projects/X" renders no page view and is redirected.
C1_ExactUnmatchedRedirects ==
    (RoutesRendered /\ ~ExactHome(Cur) /\ ~ExactProject(Cur))
        => (mounted = {} /\ pending)

\* C1 amended: every Location that is neither "/" nor "/projects/X", compared
\* ignoring letter case and trailing slashes, renders no page view and has a
\* redirect pending, and the redirect replaces the current history entry by
\* "/" instead of pushing one.
C1_UnmatchedRedirects ==
    /\ [](RoutesRendered /\ ~HomeLocation(Cur) /\ ~ProjectLocation(Cur)
            => mounted = {} /\ pending /\ ElementOf(match) = "Navigate")
    /\ [][(pending /\ lastOp' = "redirect") => ReplacedByRoot]_vars

C1_Witness ==
    /\ Ready /\ pending /\ mounted = {}
    /\ Cur = <<"projects", "">>

\* C2 as stated: at "/projects/X" the Project-detail view is rendered and
\* observes projectId = X.
C2_ProjectIdIsSegment ==
    (RoutesRendered /\ ExactProject(Cur))
        => /\ mounted = {"ProjectPage"}
           /\ ~pending
           /\ "projectId" \in DOMAIN match.params
           /\ match.params["projectId"] = Cur[2]

\* C2 amended: at "/projects/X" the Project-detail view is rendered, neither
\* the Home view nor the redirect, and projectId is X percent-decoded.
C2_ProjectIdIsDecodedSegment ==
    (RoutesRendered /\ ExactProject(Cur))
        => /\ mounted = {"ProjectPage"}
           /\ ~pending
           /\ DOMAIN match.params = {"projectId"}
           /\ match.params["projectId"] = Decode(Cur[2])

C2_Witness ==
    /\ Settled /\ lastOp = "navigate"
    /\ Cur = <<"projects", "a%20b">>
    /\ mounted = {"ProjectPage"}
    /\ match.params["projectId"] = "a b"

\* C3 as stated: the Home view is rendered at "/" and at no other Location.
C3_HomeOnlyAtExactRoot ==
    RoutesRendered => ("HomePage" \in mounted <=> Cur = Root)

\* C3 amended: the Home view is rendered at "/", and at a Location only if
\* it is "/" followed by nothing but slashes: never at a Location with a
\* non-empty segment.
C3_HomeOnlyAtRoot ==
    RoutesRendered =>
        /\ Cur = Root => mounted = {"HomePage"}
        /\ "HomePage" \in mounted <=> HomeLocation(Cur)

C3_Witness ==
    /\ Settled /\ lastOp = "navigate" /\ idx > 1
    /\ Cur = Root /\ mounted = {"HomePage"}

\* C4: once the Router has rendered, the current Location is resolved to
\* exactly one of Home view, Project-detail view and redirect: never to no
\* match, never to two outcomes.
C4_RouteTableTotal ==
    RoutesRendered =>
        /\ ElementOf(match) \in {"HomePage", "ProjectPage", "Navigate"}
        /\ match.route = MatchRoutes(Cur).route
        /\ Cardinality(mounted \cup (IF pending THEN {"redirect"} ELSE {})) = 1
        /\ pending <=> ElementOf(match) = "Navigate"
        /\ mounted = {ElementOf(match)} \cap PageViews

C4_Witness ==
    /\ Ready /\ lastOp = "navigate" /\ idx = MaxHist
    /\ ElementOf(match) = "Navigate" /\ pending

\* C5: once redirects have settled no history entry holds an unmatched path;
\* the redirect replaces the entry of the unmatched path by "/" and leaves
\* the entries before it, so that after /projects/42 then /bogus the current
\* Location is "/" and the entry before it is /projects/42.
C5_NoUnmatchedEntry ==
    /\ [](Settled => \A i \in DOMAIN history :
                        ElementOf(MatchRoutes(history[i])) \in PageViews)
    /\ [][(Ready /\ pending /\ lastOp' = "redirect")
            => /\ Cur' = Root
               /\ idx' = idx
               /\ Len(history') = Len(history)
               /\ \A i \in 1..(idx - 1) : history'[i] = history[i]
               /\ \A i \in 1..idx : history'[i] # Cur]_vars

C5_Witness ==
    /\ Settled /\ lastOp = "back"
    /\ history = << <<"projects", "42">>, Root >>
    /\ idx = 1
    /\ mounted = {"ProjectPage"}

FirstOf(S) == CHOOSE i \in S : \A j \in S : i <= j

\* C6 as stated: the selected entry is the first of the table that matches,
\* static segments being compared as exact strings.
C6_FirstExactMatchWins ==
    RoutesRendered =>
        match.route = FirstOf({i \in 1..3 :
                                  \/ i = 1 /\ ExactHome(Cur)
                                  \/ i = 2 /\ ExactProject(Cur)
                                  \/ i = 3})

\* C6 amended: the selected entry is the first of the table, in declaration
\* order, whose pattern matches the Location ignoring letter case and
\* trailing slashes; the selection and the captured projectId depend on the
\* Location alone, and the wildcard is selected only when neither earlier
\* entry matches.
C6_FirstMatchWins ==
    RoutesRendered =>
        LET first == FirstOf({i \in 1..3 :
                                 \/ i = 1 /\ HomeLocation(Cur)
                                 \/ i = 2 /\ ProjectLocation(Cur)
                                 \/ i = 3})
        IN  /\ match.route = first
            /\ match.params = IF first = 2
                              THEN [k \in {"projectId"} |-> Decode(Cur[2])]
                              ELSE NoParams

C6_Witness ==
    /\ Settled /\ match.route = 2
    /\ Cur = <<"Projects", "42">>
    /\ match.params["projectId"] = "42"

\* C7: the user context is established before the project context, and both
\* before <Routes> renders and a page view mounts, in every state.
C7_UserBeforeProjects ==
    /\ projCtx # Absent => userCtx # Absent
    /\ Rendered("ProjectsProvider") => Rendered("UserProvider")
    /\ (RoutesRendered \/ mounted # {} \/ pending)
          => (userCtx # Absent /\ projCtx # Absent)

C7_Witness ==
    /\ Settled /\ lastOp = "update"
    /\ userCtx = "user1" /\ projCtx = "projects0"
    /\ mounted # {} /\ idx > 1

\* C8: the Toaster is mounted once, bottom-right, and route transitions,
\* redirects included, neither unmount nor remount it.
C8_ToasterStaysMounted ==
    /\ toasterMounts = (IF Rendered("Toaster") THEN 1 ELSE 0)
    /\ Rendered("Toaster") => toasterPos = "bottom-right"
    /\ ~Rendered("Toaster") => toasterPos = "none"

C8_Witness ==
    /\ Settled /\ lastOp = "redirect" /\ idx = MaxHist
    /\ toasterMounts = 1 /\ toasterPos = "bottom-right"

\* C9: a pending redirect leads to a rendered page view with no redirect
\* pending, and the redirect itself never leaves a redirect pending.
C9_RedirectTerminates ==
    /\ (~Ready \/ pending) ~> (Settled /\ Cardinality(mounted) = 1)
    /\ [][(pending /\ lastOp' = "redirect")
            => (~pending' /\ mounted' = {"HomePage"})]_vars

C9_Witness ==
    /\ Settled /\ lastOp = "redirect"
    /\ mounted = {"HomePage"} /\ Cur = Root /\ idx = 1

\* C10: one UserProvider and one ProjectsProvider instance exist once
\* mounted, at most one page view is mounted, and a route transition leaves
\* the provider instances and the context values unchanged.
C10_ProvidersOutliveRoutes ==
    /\ [](/\ userMounts = (IF Rendered("UserProvider") THEN 1 ELSE 0)
          /\ projMounts = (IF Rendered("ProjectsProvider") THEN 1 ELSE 0)
          /\ Cardinality(mounted) <= 1)
    /\ [][lastOp' \in RouteOps
            => UNCHANGED <<userCtx, projCtx, userMounts, projMounts>>]_vars

C10_Witness ==
    /\ Settled /\ lastOp = "forward"
    /\ userMounts = 1 /\ projMounts = 1
    /\ mounted = {"ProjectPage"}
    /\ history[idx - 1] = Root

====
